---- MODULE Spec2Model ----
(***************************************************************************)
(* Model of collector/src/runtime/benchmark.rs: assembly of the runtime    *)
(* benchmark suite (prepare_runtime_benchmark_suite), the interpretation   *)
(* of one cargo build stream (parse_benchmark_group), the enumeration of   *)
(* the benchmarks of a binary (gather_benchmarks) and the duplicate check  *)
(* (check_duplicates).                                                     *)
(*                                                                         *)
(* Option<T> is modelled as a sequence of length at most one: None is <<>> *)
(* and Some(x) is <<x>>.  Strings that are concatenated (the diagnostics   *)
(* buffer) are sequences of tokens, concatenated with \o.  Unit names and  *)
(* artifact paths are numbers, ordered as the code orders names and paths. *)
(* Benchmark names are sequences of characters, so that a filter pattern   *)
(* can be matched against them.                                            *)
(***************************************************************************)
EXTENDS Integers, Sequences, FiniteSets, TLC

\* ---------------------------------------------------------------- bounds
\* Units in the benchmark directory are named 1..MaxUnits.
MaxUnits == 2
\* Stream items read from the cargo processes during one assembly.
MaxMsgs == 2

None == <<>>
Some(x) == <<x>>

UnitNames == 1..MaxUnits
\* Executable paths reported by cargo; compared as PathBuf compares them.
Paths == {1, 2}

\* The lists of names a binary prints: none, one name, two different names,
\* the same name twice.
ListOutputs ==
    {<<>>, << <<"a">> >>, << <<"b">> >>, << <<"a">>, <<"a">> >>,
     << <<"a">>, <<"b">> >>}

\* ------------------------------------------------------ the environment
\* One item of Message::parse_stream: Ok(message) of one of the variants the
\* match distinguishes, or Err (an I/O error of the stream).
ArtifactMessages ==
    [type : {"CompilerArtifact"},
     executable : {None} \cup {Some(p) : p \in Paths},
     kind : {{"lib"}, {"bin"}}]
CompilerMessages ==
    [type : {"CompilerMessage"},
     rendered : {None, Some(<<"r">>)},
     message : {<<"m">>}]

\* ExitStatus of a child: code() is Some(c), or None when a signal ended it.
ExitStatuses == {Some(0), Some(2), None}
success(status) == status = Some(0)

\* What running `<binary> list` does: whether it could be started, its exit
\* status and its standard output (Some(list) when it is a JSON list of
\* strings, None otherwise).
ListRuns ==
    [started : {TRUE}, status : {Some(0), Some(2)},
     stdout : {None} \cup {Some(l) : l \in ListOutputs}]
    \cup {[started |-> FALSE, status |-> None, stdout |-> None]}

\* ------------------------------------------------------------- results
Ok(v) == [ok |-> TRUE, val |-> v]
Err(e) == [ok |-> FALSE, val |-> e]

\* An anyhow error is the chain of its messages, outermost context first.
\* One message of the chain: its text and the values formatted into it.
ErrorMessage(msg) ==
    [msg |-> msg, unit |-> None, path |-> None, code |-> None,
     text |-> <<>>, inner |-> ""]

\* anyhow's with_context: the context becomes the head of the chain.
with_context(result, context) ==
    IF result.ok THEN result ELSE Err(<<context>> \o result.val)

\* format!("{error:?}") of an anyhow error: the outermost message, then the
\* causes under "Caused by:".
DebugFormat(error) ==
    IF Len(error) = 1 THEN error
    ELSE <<Head(error)>> \o <<ErrorMessage("Caused by:")>> \o Tail(error)

\* crate::runtime_group_step_name: the key of a unit in failed_to_compile.
runtime_group_step_name(name) == <<"runtime:", name>>

\* ------------------------------------------------------ gather_benchmarks
\* Command::new(binary).arg("list").output()? fails only when the process
\* cannot be started; serde_json::from_slice(&output.stdout)? fails when
\* the output is not a list of strings.  output.status is not read.
gather_benchmarks(run) ==
    IF ~run.started THEN Err(<<[ErrorMessage("io error") EXCEPT !.inner = "spawn"]>>)
    ELSE IF run.stdout = None
         THEN Err(<<[ErrorMessage("json error") EXCEPT !.inner = "parse"]>>)
         ELSE Ok(run.stdout[1])

\* ------------------------------------------------------- check_duplicates
\* The (benchmark, group name) pairs in the order the two loops visit them.
RECURSIVE BenchmarkPairs(_)
BenchmarkPairs(gs) ==
    IF gs = <<>> THEN <<>>
    ELSE [i \in 1..Len(Head(gs).benchmark_names) |->
             [benchmark |-> Head(gs).benchmark_names[i], group |-> Head(gs).name]]
         \o BenchmarkPairs(Tail(gs))

\* The loop body from pair k on, benchmark_to_group_name being `map`
\* (a function from the benchmark names inserted so far to group names).
RECURSIVE CheckPairs(_, _, _)
CheckPairs(pairs, k, map) ==
    IF k > Len(pairs) THEN Ok(<<>>)
    ELSE LET benchmark_name == pairs[k].benchmark
             group_name == pairs[k].group
         IN IF benchmark_name \in DOMAIN map
            THEN Err(<<[msg |-> "Duplicated benchmark name",
                       benchmark |-> benchmark_name,
                       previous_group |-> map[benchmark_name],
                       group |-> group_name]>>)
            ELSE CheckPairs(pairs, k + 1,
                    [b \in DOMAIN map \cup {benchmark_name} |->
                        IF b = benchmark_name THEN group_name ELSE map[b]])

EmptyMap == [x \in {} |-> x]

check_duplicates(gs) == CheckPairs(BenchmarkPairs(gs), 1, EmptyMap)

\* SortedByBinary as it would be without the sort: the order of the builds.
SortedByBinary_BuildOrder(gs) == {gs}

\* groups.sort_unstable_by(|a, b| a.binary.cmp(&b.binary)): every ordering
\* of the same groups by non-decreasing binary; groups with equal binaries
\* may end in any order.
SortedByBinary(gs) ==
    LET perms == {perm \in [1..Len(gs) -> 1..Len(gs)] :
                     \A i, j \in 1..Len(gs) : i # j => perm[i] # perm[j]}
        sorted == {perm \in perms :
                      \A i \in 1..(Len(gs) - 1) :
                         gs[perm[i]].binary <= gs[perm[i + 1]].binary}
    IN {[i \in 1..Len(gs) |-> gs[perm[i]]] : perm \in sorted}

\* ---------------------------------------------------------------- state
VARIABLES
    dir,                \* names of the unit directories under benchmark_dir
    isolation_mode,     \* "Cached" or "Isolated"
    pc,                 \* position in prepare_runtime_benchmark_suite
    benchmark_crates,   \* the discovered units, sorted by name
    temp_dir,           \* Option<TempDir>
    index,              \* position of the loop in benchmark_crates (from 1)
    groups,             \* Vec<BenchmarkGroup>
    failed_to_compile,  \* HashMap: step name -> formatted error
    guard,              \* _guard: Option of the unit whose Cargo.lock is held
    proc,               \* unit -> "none", "running" or "exited" (its cargo)
    group,              \* parse_benchmark_group: Option<BenchmarkGroup>
    messages,           \* parse_benchmark_group: the diagnostics buffer
    result,             \* Option of the unit's Result<BenchmarkGroup>
    ret,                \* Option of the returned Result
    outcome,            \* unit -> Option of the Result its pipeline ended with
    nread,              \* stream items read so far, over all units
    \* What the environment did to the current unit, kept to state claims:
    nbin,               \* binary artifact messages received
    diags,              \* the CompilerMessages received, in arrival order
    listRuns,           \* the runs of `<binary> list`, in order, each with
                        \* the artifact message that caused it and whether
                        \* the exit status of cargo was collected before it
    stream_end,         \* "open", "error" (an Err item) or "eof"
    unread_bin,         \* after an early return: whether the part of the
                        \* stream that was never read holds a binary artifact
    exit_status,        \* Option of the ExitStatus cargo exited with
    \* The files the assembly touches:
    lock_mode,          \* unit -> permission bits of its Cargo.lock
    saved_permissions,  \* Option of the bits the held guard restores
    tmp_state,          \* temporary directory: "none", "exists", "deleted"
    target_dirs,        \* unit -> Option of the --target-dir of its build
    \* The caller of the assembly:
    compilation,        \* Option<BenchmarkSuiteCompilation> the caller holds
    suite,              \* Option<BenchmarkSuite> the caller holds
    panic,              \* Option of the message extract_suite panicked with
    call,               \* the last call on the suite: its inputs and output
    \* get_runtime_benchmark_groups:
    root,               \* the entries of the directory
    restriction,        \* the `group` parameter: Option of a name
    unread,             \* entries read_dir has not yielded yet
    found,              \* the local `groups` of the function
    listed              \* Option of the Result the function returned

vars == <<dir, isolation_mode, pc, benchmark_crates, temp_dir, index, groups,
          failed_to_compile, guard, proc, group, messages, result, ret,
          outcome, nread, nbin, diags, listRuns, stream_end, unread_bin,
          exit_status, lock_mode, saved_permissions, tmp_state, target_dirs,
          compilation, suite, panic, call,
          root, restriction, unread, found, listed>>

file_vars == <<lock_mode, saved_permissions, tmp_state, target_dirs>>
caller_vars == <<compilation, suite, panic, call>>
discovery_vars == <<root, restriction, unread, found, listed>>

main_vars == <<dir, isolation_mode, benchmark_crates, temp_dir, index, groups,
               failed_to_compile>>
parse_vars == <<group, messages>>
env_vars == <<nbin, diags, listRuns, stream_end, unread_bin, exit_status>>

\* The unit the loop is at.
benchmark_crate == benchmark_crates[index]

\* get_runtime_benchmark_groups: the units sorted by name.
RECURSIVE SortedByName(_)
SortedByName(S) ==
    IF S = {} THEN <<>>
    ELSE LET least == CHOOSE n \in S : \A m \in S : n <= m
         IN <<least>> \o SortedByName(S \ {least})

\* Permission bits of the Cargo.lock of a unit before the assembly.
LockFileMode(u) ==
    IF u % 2 = 1 THEN {"ur", "uw", "gr", "or"} ELSE {"ur", "uw", "gr", "gw"}

\* EnsureImmutableFile: while the guard is held the file is not writable;
\* dropping the guard puts back the bits the file had before.
ReadOnly(mode) == mode \ {"uw", "gw", "ow"}

\* No call was made on the suite yet.
NoCall == [op |-> "none"]

FilesInit ==
    /\ lock_mode = [u \in UnitNames |-> LockFileMode(u)]
    /\ saved_permissions = None
    /\ tmp_state = "none"
    /\ target_dirs = [u \in UnitNames |-> None]

\* The caller holds nothing yet.
CallerIdle ==
    /\ compilation = None
    /\ suite = None
    /\ panic = None
    /\ call = NoCall

\* get_runtime_benchmark_groups is not being followed entry by entry.
DiscoveryIdle ==
    /\ root = {}
    /\ restriction = None
    /\ unread = {}
    /\ found = <<>>
    /\ listed = None

Init ==
    /\ dir \in SUBSET UnitNames
    /\ isolation_mode \in {"Cached", "Isolated"}
    /\ pc = "discover"
    /\ benchmark_crates = <<>>
    /\ temp_dir = None
    /\ index = 1
    /\ groups = <<>>
    /\ failed_to_compile = EmptyMap
    /\ guard = None
    /\ proc = [u \in UnitNames |-> "none"]
    /\ group = None
    /\ messages = <<>>
    /\ result = None
    /\ ret = None
    /\ outcome = [u \in UnitNames |-> None]
    /\ nread = 0
    /\ nbin = 0
    /\ diags = <<>>
    /\ listRuns = <<>>
    /\ stream_end = "open"
    /\ unread_bin = FALSE
    /\ exit_status = None
    /\ FilesInit
    /\ CallerIdle
    /\ DiscoveryIdle

\* ------------------------------------------------------------- helpers
\* The temporary directory after its TempDir handle was dropped.
Released(state) == IF state = "exists" THEN "deleted" ELSE state

\* Insert as it would be if the entry were lost.
Insert_Lost(map, key, value) == map

\* HashMap::insert.
Insert(map, key, value) ==
    [k \in DOMAIN map \cup {key} |-> IF k = key THEN value ELSE map[k]]

\* Where the for loop goes when it is at position i.
LoopAt(i) == IF i <= Len(benchmark_crates) THEN "guard" ELSE "finish"

\* The environment's record of the current unit, as it is before a build.
EnvReset ==
    /\ nbin' = 0
    /\ diags' = <<>>
    /\ listRuns' = <<>>
    /\ stream_end' = "open"
    /\ unread_bin' = FALSE
    /\ exit_status' = None

\* The function returns `r`; its locals are dropped.
Return(r) ==
    /\ ret' = Some(r)
    /\ pc' = "done"

\* parse_benchmark_group returns `r` to the closure of and_then, which adds
\* its context; the match on the result comes next.
ParseReturns(r) ==
    /\ result' = Some(with_context(r,
            [ErrorMessage("Cannot compile runtime benchmark")
                EXCEPT !.unit = Some(benchmark_crate)]))
    /\ outcome' = [outcome EXCEPT ![benchmark_crate] = result']
    /\ pc' = "record"

\* An early return leaves the rest of the stream unread, whatever it holds.
LeavesStreamUnread == unread_bin' \in BOOLEAN

\* ------------------------------------------------ the assembly function
\* let benchmark_crates = get_runtime_benchmark_groups(benchmark_dir, group)?;
Discover ==
    /\ pc = "discover"
    /\ \/ /\ benchmark_crates' = SortedByName(dir)
          /\ pc' = "tempdir"
          /\ ret' = ret
       \/ /\ Return(Err(<<ErrorMessage("Failed to list benchmark dir")>>))
          /\ benchmark_crates' = benchmark_crates
    /\ UNCHANGED <<dir, isolation_mode, temp_dir, index, groups,
                   failed_to_compile, guard, proc, result, outcome>>
    /\ UNCHANGED parse_vars
    /\ UNCHANGED <<nread, env_vars>>
    /\ UNCHANGED file_vars
    /\ UNCHANGED <<caller_vars, discovery_vars>>

\* let temp_dir = match isolation_mode { ... .tempdir().context(...)? };
CreateTempDir ==
    /\ pc = "tempdir"
    /\ \/ /\ isolation_mode = "Cached"
          /\ temp_dir' = None
          /\ tmp_state' = tmp_state
          /\ pc' = LoopAt(index)
          /\ ret' = ret
       \/ /\ isolation_mode = "Isolated"
          /\ temp_dir' = Some("tmp")
          /\ tmp_state' = "exists"
          /\ pc' = LoopAt(index)
          /\ ret' = ret
       \/ /\ isolation_mode = "Isolated"
          /\ temp_dir' = None
          /\ tmp_state' = tmp_state
          /\ Return(Err(<<ErrorMessage("Cannot create temporary directory"),
                          ErrorMessage("io error")>>))
    /\ UNCHANGED <<dir, isolation_mode, benchmark_crates, index, groups,
                   failed_to_compile, guard, proc, result, outcome>>
    /\ UNCHANGED parse_vars
    /\ UNCHANGED <<nread, env_vars>>
    /\ UNCHANGED <<lock_mode, saved_permissions, target_dirs>>
    /\ UNCHANGED <<caller_vars, discovery_vars>>

\* The error of EnsureImmutableFile::new(&path.join("Cargo.lock"), name).
GuardError(name) ==
    <<[ErrorMessage("EnsureImmutableFile::new failed") EXCEPT !.unit = Some(name)]>>

\* let _guard = match isolation_mode { ... EnsureImmutableFile::new(..)? };
\* A failure of EnsureImmutableFile::new leaves the function through `?`.
AcquireGuard ==
    /\ pc = "guard"
    /\ \/ /\ isolation_mode = "Cached"
          /\ guard' = None
          /\ pc' = "spawn"
          /\ UNCHANGED <<ret, temp_dir, lock_mode, saved_permissions, tmp_state>>
       \/ /\ isolation_mode = "Isolated"
          /\ guard' = Some(benchmark_crate)
          /\ saved_permissions' = Some(lock_mode[benchmark_crate])
          /\ lock_mode' = [lock_mode EXCEPT ![benchmark_crate] = ReadOnly(@)]
          /\ pc' = "spawn"
          /\ UNCHANGED <<ret, temp_dir, tmp_state>>
       \/ /\ isolation_mode = "Isolated"
          /\ guard' = None
          /\ temp_dir' = None
          /\ tmp_state' = Released(tmp_state)
          /\ Return(Err(GuardError(benchmark_crate)))
          /\ UNCHANGED <<lock_mode, saved_permissions>>
    /\ UNCHANGED <<dir, isolation_mode, benchmark_crates, index, groups,
                   failed_to_compile, proc, result, outcome>>
    /\ UNCHANGED parse_vars
    /\ UNCHANGED <<nread, env_vars>>
    /\ target_dirs' = target_dirs
    /\ UNCHANGED <<caller_vars, discovery_vars>>

\* start_cargo_build(..).with_context(..): command.spawn() starts cargo or
\* fails.  On success parse_benchmark_group starts with its fresh locals.
StartCargoBuild ==
    /\ pc = "spawn"
    /\ \/ /\ proc' = [proc EXCEPT ![benchmark_crate] = "running"]
          /\ target_dirs' = [target_dirs EXCEPT ![benchmark_crate] = Some(temp_dir)]
          /\ group' = None
          /\ messages' = <<>>
          /\ pc' = "read"
          /\ UNCHANGED <<result, outcome>>
       \/ /\ result' = Some(with_context(
                 Err(<<ErrorMessage("Failed to start cargo")>>),
                 [ErrorMessage("Cannot start compilation of")
                     EXCEPT !.unit = Some(benchmark_crate)]))
          /\ outcome' = [outcome EXCEPT ![benchmark_crate] = result']
          /\ pc' = "record"
          /\ UNCHANGED <<proc, group, messages, target_dirs>>
    /\ EnvReset
    /\ UNCHANGED <<guard, ret, nread>>
    /\ UNCHANGED main_vars
    /\ UNCHANGED <<lock_mode, saved_permissions, tmp_state>>
    /\ UNCHANGED <<caller_vars, discovery_vars>>

\* ------------------------------------------------ parse_benchmark_group
\* One more item is read from Message::parse_stream.
ReadsItem ==
    /\ pc = "read"
    /\ nread < MaxMsgs
    /\ nread' = nread + 1

\* let message = message?;  -- the item is an Err: the function returns,
\* the Child is dropped without wait() or kill(), so cargo keeps running.
ReadStreamError ==
    /\ ReadsItem
    /\ stream_end' = "error"
    /\ LeavesStreamUnread
    /\ ParseReturns(Err(<<ErrorMessage("stream io error")>>))
    /\ UNCHANGED <<nbin, diags, listRuns, exit_status>>
    /\ UNCHANGED <<guard, proc, ret>>
    /\ UNCHANGED parse_vars
    /\ UNCHANGED main_vars
    /\ UNCHANGED file_vars
    /\ UNCHANGED <<caller_vars, discovery_vars>>

\* IsBinary as it would be without the test of the target kind.
IsBinary_AnyExecutable(artifact) == artifact.executable # None

\* artifact.executable is Some and artifact.target.kind has "bin".
IsBinary(artifact) == artifact.executable # None /\ "bin" \in artifact.kind

\* HasGroup as it would be without the check: a later binary replaces the
\* earlier one.
HasGroup_Unchecked(grp) == FALSE

\* group.is_some(): a binary of this unit was found before.
HasGroup(grp) == grp # None

\* Message::CompilerArtifact(artifact)
ReadCompilerArtifact ==
    /\ ReadsItem
    /\ \E artifact \in ArtifactMessages :
          \/ /\ ~IsBinary(artifact)
             /\ UNCHANGED <<nbin, listRuns, group, result, outcome, pc,
                            unread_bin>>
          \/ /\ IsBinary(artifact)
             /\ HasGroup(group)
             /\ nbin' = nbin + 1
             /\ ParseReturns(Err(<<[ErrorMessage("has produced multiple binaries")
                                      EXCEPT !.unit = Some(benchmark_crate)]>>))
             /\ LeavesStreamUnread
             /\ UNCHANGED <<listRuns, group>>
          \/ /\ IsBinary(artifact)
             /\ ~HasGroup(group)
             /\ nbin' = nbin + 1
             /\ \E run \in ListRuns :
                   LET path == artifact.executable[1]
                       benchmarks == gather_benchmarks(run)
                   IN /\ listRuns' = Append(listRuns,
                                             [binary |-> path, run |-> run,
                                              artifact |-> artifact,
                                              waited |-> exit_status # None])
                      /\ IF benchmarks.ok
                         THEN /\ group' = Some([binary |-> path,
                                                name |-> benchmark_crate,
                                                benchmark_names |-> benchmarks.val])
                              /\ UNCHANGED <<result, outcome, pc, unread_bin>>
                         ELSE /\ LeavesStreamUnread
                              /\ ParseReturns(Err(<<
                                    [ErrorMessage("Cannot gather benchmarks from")
                                        EXCEPT !.path = Some(path),
                                               !.inner = benchmarks.val[1].inner]>>))
                              /\ group' = group
    /\ UNCHANGED <<diags, stream_end, exit_status, messages>>
    /\ UNCHANGED <<guard, proc, ret>>
    /\ UNCHANGED main_vars
    /\ UNCHANGED file_vars
    /\ UNCHANGED <<caller_vars, discovery_vars>>

\* Message::TextLine(line) => println!
ReadTextLine ==
    /\ ReadsItem
    /\ UNCHANGED <<nbin, diags, listRuns, stream_end, unread_bin, exit_status>>
    /\ UNCHANGED <<guard, proc, ret, result, outcome, pc>>
    /\ UNCHANGED parse_vars
    /\ UNCHANGED main_vars
    /\ UNCHANGED file_vars
    /\ UNCHANGED <<caller_vars, discovery_vars>>

\* msg.message.rendered.unwrap_or(msg.message.message)
DiagnosticText(msg) == IF msg.rendered # None THEN msg.rendered[1] ELSE msg.message

\* ReadCompilerMessage as it would be if the buffer kept only the latest
\* diagnostic.
ReadCompilerMessage_Overwrites ==
    /\ ReadsItem
    /\ \E msg \in CompilerMessages :
          /\ messages' = DiagnosticText(msg)
          /\ diags' = Append(diags, msg)
    /\ UNCHANGED <<nbin, listRuns, stream_end, unread_bin, exit_status>>
    /\ UNCHANGED <<guard, proc, ret, result, outcome, pc, group>>
    /\ UNCHANGED main_vars
    /\ UNCHANGED file_vars
    /\ UNCHANGED <<caller_vars, discovery_vars>>

\* Message::CompilerMessage(msg) => messages.push_str(&message)
ReadCompilerMessage ==
    /\ ReadsItem
    /\ \E msg \in CompilerMessages :
          /\ messages' = messages \o DiagnosticText(msg)
          /\ diags' = Append(diags, msg)
    /\ UNCHANGED <<nbin, listRuns, stream_end, unread_bin, exit_status>>
    /\ UNCHANGED <<guard, proc, ret, result, outcome, pc, group>>
    /\ UNCHANGED main_vars
    /\ UNCHANGED file_vars
    /\ UNCHANGED <<caller_vars, discovery_vars>>

\* _ => {}  (BuildScriptExecuted, BuildFinished, ...)
ReadOther ==
    /\ ReadsItem
    /\ UNCHANGED <<nbin, diags, listRuns, stream_end, unread_bin, exit_status>>
    /\ UNCHANGED <<guard, proc, ret, result, outcome, pc>>
    /\ UNCHANGED parse_vars
    /\ UNCHANGED main_vars
    /\ UNCHANGED file_vars
    /\ UNCHANGED <<caller_vars, discovery_vars>>

\* The stream ends: the for loop over parse_stream is left.
ReadEnd ==
    /\ pc = "read"
    /\ stream_end' = "eof"
    /\ pc' = "wait"
    /\ UNCHANGED <<nread, nbin, diags, listRuns, unread_bin, exit_status>>
    /\ UNCHANGED <<guard, proc, ret, result, outcome>>
    /\ UNCHANGED parse_vars
    /\ UNCHANGED main_vars
    /\ UNCHANGED file_vars
    /\ UNCHANGED <<caller_vars, discovery_vars>>

\* AfterWait as it would be with the group looked at before the exit
\* status.
AfterWait_GroupFirst(output, grp, msgs, group_name) ==
    IF grp = None
    THEN Err(<<[ErrorMessage("has not produced any binary")
                  EXCEPT !.unit = Some(group_name)]>>)
    ELSE IF ~success(output)
         THEN Err(<<[ErrorMessage("Failed to compile runtime benchmark, exit code")
                       EXCEPT !.code = Some(IF output # None THEN output[1] ELSE 1),
                              !.text = msgs]>>)
         ELSE Ok(grp[1])

\* The lines after cargo_process.wait()? returned `output`.
AfterWait(output, grp, msgs, group_name) ==
    IF ~success(output)
    THEN Err(<<[ErrorMessage("Failed to compile runtime benchmark, exit code")
                  EXCEPT !.code = Some(IF output # None THEN output[1] ELSE 1),
                         !.text = msgs]>>)
    ELSE IF grp = None
         THEN Err(<<[ErrorMessage("has not produced any binary")
                       EXCEPT !.unit = Some(group_name)]>>)
         ELSE Ok(grp[1])

\* let output = cargo_process.wait()?; and the rest of the function.
\* wait() blocks until cargo has exited; it fails when there is no child
\* left to wait for.
Wait ==
    /\ pc = "wait"
    /\ proc' = [proc EXCEPT ![benchmark_crate] = "exited"]
    /\ \/ /\ ParseReturns(Err(<<ErrorMessage("wait io error")>>))
          /\ exit_status' = exit_status
       \/ \E output \in ExitStatuses :
             /\ exit_status' = Some(output)
             /\ ParseReturns(AfterWait(output, group, messages, benchmark_crate))
    /\ UNCHANGED <<nread, nbin, diags, listRuns, stream_end, unread_bin>>
    /\ UNCHANGED <<guard, ret>>
    /\ UNCHANGED parse_vars
    /\ UNCHANGED main_vars
    /\ UNCHANGED file_vars
    /\ UNCHANGED <<caller_vars, discovery_vars>>

\* ------------------------------------------------------ back in the loop
\* RecordResult as it would be with `?` on the result: a failed unit ends
\* the call instead of being recorded.
RecordResult_Propagates ==
    /\ pc = "record"
    /\ IF result[1].ok
       THEN /\ groups' = Append(groups, result[1].val)
            /\ index' = index + 1
            /\ pc' = LoopAt(index + 1)
            /\ ret' = ret
       ELSE /\ groups' = groups
            /\ index' = index
            /\ Return(Err(result[1].val))
    /\ failed_to_compile' = failed_to_compile
    /\ guard' = None
    /\ result' = None
    /\ group' = None
    /\ messages' = <<>>
    /\ EnvReset
    /\ UNCHANGED <<dir, isolation_mode, benchmark_crates, temp_dir, proc,
                   outcome, nread>>
    /\ UNCHANGED file_vars
    /\ UNCHANGED <<caller_vars, discovery_vars>>

\* RecordResult as it would be if _guard outlived the iteration: the next
\* iteration starts with the lock file of this unit still held.
RecordResult_KeepsGuard ==
    /\ pc = "record"
    /\ IF result[1].ok
       THEN /\ groups' = Append(groups, result[1].val)
            /\ failed_to_compile' = failed_to_compile
       ELSE /\ failed_to_compile' =
                  Insert(failed_to_compile,
                         runtime_group_step_name(benchmark_crate),
                         DebugFormat(result[1].val))
            /\ groups' = groups
    /\ guard' = guard
    /\ result' = None
    /\ index' = index + 1
    /\ pc' = LoopAt(index + 1)
    /\ group' = None
    /\ messages' = <<>>
    /\ EnvReset
    /\ UNCHANGED <<dir, isolation_mode, benchmark_crates, temp_dir, proc, ret,
                   outcome, nread>>
    /\ UNCHANGED file_vars
    /\ UNCHANGED <<caller_vars, discovery_vars>>

\* match result { Ok(group) => groups.push(group), Err(error) => insert },
\* then the iteration ends: _guard is dropped and the loop moves on.
RecordResult ==
    /\ pc = "record"
    /\ IF result[1].ok
       THEN /\ groups' = Append(groups, result[1].val)
            /\ failed_to_compile' = failed_to_compile
       ELSE /\ failed_to_compile' =
                  Insert(failed_to_compile,
                         runtime_group_step_name(benchmark_crate),
                         DebugFormat(result[1].val))
            /\ groups' = groups
    /\ guard' = None
    /\ saved_permissions' = None
    /\ lock_mode' = IF guard = None THEN lock_mode
                    ELSE [lock_mode EXCEPT ![guard[1]] = saved_permissions[1]]
    /\ result' = None
    /\ index' = index + 1
    /\ pc' = LoopAt(index + 1)
    /\ group' = None
    /\ messages' = <<>>
    /\ EnvReset
    /\ UNCHANGED <<dir, isolation_mode, benchmark_crates, temp_dir, proc, ret,
                   outcome, nread, tmp_state, target_dirs>>
    /\ UNCHANGED <<caller_vars, discovery_vars>>

\* groups.sort_unstable_by(..); check_duplicates(&groups)?; Ok(..)
Finish ==
    /\ pc = "finish"
    /\ \E sorted \in SortedByBinary(groups) :
          /\ groups' = sorted
          /\ IF check_duplicates(sorted).ok
             THEN /\ Return(Ok([suite |-> [toolchain |-> "toolchain",
                                           groups |-> sorted,
                                           _tmp_artifacts_dir |-> temp_dir],
                                failed_to_compile |-> failed_to_compile]))
                  /\ temp_dir' = temp_dir
                  /\ tmp_state' = tmp_state
             ELSE /\ Return(Err(check_duplicates(sorted).val))
                  /\ temp_dir' = None
                  /\ tmp_state' = Released(tmp_state)
    /\ UNCHANGED <<dir, isolation_mode, benchmark_crates, index,
                   failed_to_compile, guard, proc, result, outcome>>
    /\ UNCHANGED parse_vars
    /\ UNCHANGED <<nread, env_vars>>
    /\ UNCHANGED <<lock_mode, saved_permissions, target_dirs>>
    /\ UNCHANGED <<caller_vars, discovery_vars>>

\* ------------------------------------------------------ the environment
\* A cargo that nobody waits for (its Child was dropped on an early return
\* of parse_benchmark_group) exits on its own at some time.
Supervised(u) ==
    /\ pc \in {"read", "wait"}
    /\ benchmark_crate = u

CargoExits ==
    \E u \in UnitNames :
       /\ proc[u] = "running"
       /\ ~Supervised(u)
       /\ proc' = [proc EXCEPT ![u] = "exited"]
       /\ IF pc = "record" /\ benchmark_crate = u
          THEN \E status \in ExitStatuses : exit_status' = Some(status)
          ELSE exit_status' = exit_status
       /\ UNCHANGED <<guard, ret, result, outcome, pc>>
       /\ UNCHANGED parse_vars
       /\ UNCHANGED <<nread, nbin, diags, listRuns, stream_end, unread_bin>>
       /\ UNCHANGED main_vars
       /\ UNCHANGED file_vars
       /\ UNCHANGED <<caller_vars, discovery_vars>>

Next ==
    \/ Discover
    \/ CreateTempDir
    \/ AcquireGuard
    \/ StartCargoBuild
    \/ ReadStreamError
    \/ ReadCompilerArtifact
    \/ ReadTextLine
    \/ ReadCompilerMessage
    \/ ReadOther
    \/ ReadEnd
    \/ Wait
    \/ RecordResult
    \/ Finish
    \/ CargoExits

Spec == Init /\ [][Next]_vars

\* ================================================= the suite and its caller
\* ---------------------------------------------------------- BenchmarkFilter
\* The patterns a caller passes.
Patterns == {<<"a">>, <<"c">>}

\* BenchmarkFilter::new(exclude, include); keep_all() is the one without
\* patterns.
BenchmarkFilters ==
    [exclude : {None} \cup {Some(p) : p \in Patterns},
     include : {None} \cup {Some(p) : p \in Patterns}]

keep_all == [exclude |-> None, include |-> None]

\* The matching primitive of benchlib: the name begins with the pattern.
Matches(pattern, name) ==
    /\ Len(pattern) <= Len(name)
    /\ SubSeq(name, 1, Len(pattern)) = pattern

\* benchlib::benchmark::passes_filter: not excluded by the exclude pattern,
\* if there is one, and included by the include pattern, if there is one.
passes_filter(name, exclude, include) ==
    /\ exclude # None => ~Matches(exclude[1], name)
    /\ include # None => Matches(include[1], name)

\* ----------------------------------------------------------- BenchmarkSuite
\* BenchmarkSuite::filter as it would be if it kept the matching names
\* instead of the groups that have one.
filter_NamesOnly(self, f) ==
    LET Kept(benchmark) == passes_filter(benchmark, f.exclude, f.include)
        Cut(g) == [g EXCEPT !.benchmark_names = SelectSeq(@, Kept)]
        cut == [i \in 1..Len(self.groups) |-> Cut(self.groups[i])]
        NonEmpty(g) == g.benchmark_names # <<>>
    IN [self EXCEPT !.groups = SelectSeq(cut, NonEmpty)]

\* BenchmarkSuite::filter as it would be if it built a suite of its own
\* without the handle of the temporary directory.
filter_DropsTempDir(self, f) ==
    LET Keeps(g) ==
           \E i \in 1..Len(g.benchmark_names) :
              passes_filter(g.benchmark_names[i], f.exclude, f.include)
    IN [toolchain |-> self.toolchain,
        groups |-> SelectSeq(self.groups, Keeps),
        _tmp_artifacts_dir |-> None]

\* BenchmarkSuite::filter
filter(self, f) ==
    LET Keeps(g) ==
           \E i \in 1..Len(g.benchmark_names) :
              passes_filter(g.benchmark_names[i], f.exclude, f.include)
    IN [toolchain |-> self.toolchain,
        groups |-> SelectSeq(self.groups, Keeps),
        _tmp_artifacts_dir |-> self._tmp_artifacts_dir]

\* The names of the groups gs, group after group.
RECURSIVE FlatNames(_)
FlatNames(gs) ==
    IF gs = <<>> THEN <<>>
    ELSE Head(gs).benchmark_names \o FlatNames(Tail(gs))

\* BenchmarkSuite::benchmark_names, collected.
benchmark_names(self) == FlatNames(self.groups)

\* filtered_benchmark_count as it would be if it counted the names of the
\* filtered suite.
filtered_benchmark_count_OfGroups(self, f) ==
    Len(benchmark_names(filter(self, f)))

\* BenchmarkSuite::filtered_benchmark_count
filtered_benchmark_count(self, f) ==
    LET Kept(benchmark) == passes_filter(benchmark, f.exclude, f.include)
    IN Len(SelectSeq(benchmark_names(self), Kept))

\* get_group_by_benchmark as it would be if only the first name of each
\* group were compared.
get_group_by_benchmark_FirstName(self, benchmark) ==
    LET has == {i \in 1..Len(self.groups) :
                   /\ self.groups[i].benchmark_names # <<>>
                   /\ self.groups[i].benchmark_names[1] = benchmark}
    IN IF has = {} THEN None
       ELSE Some(self.groups[CHOOSE i \in has : \A k \in has : i <= k])

\* BenchmarkSuite::get_group_by_benchmark: the first group that has it.
get_group_by_benchmark(self, benchmark) ==
    LET has == {i \in 1..Len(self.groups) :
                   \E j \in 1..Len(self.groups[i].benchmark_names) :
                      self.groups[i].benchmark_names[j] = benchmark}
    IN IF has = {} THEN None
       ELSE Some(self.groups[CHOOSE i \in has : \A k \in has : i <= k])

\* ------------------------------------------------- BenchmarkSuiteCompilation
\* The orders in which a HashMap with the keys S may be iterated.
Orders(S) ==
    {order \in [1..Cardinality(S) -> S] :
        \A i, j \in 1..Cardinality(S) : i # j => order[i] # order[j]}

\* The message extract_suite panics with: the first line, then for each
\* entry of the map, in the order of iteration, "{group}\n{error}\n".
PanicMessage(failed, order) ==
    [head |-> "Cannot extract runtime suite because of compilation errors:",
     entries |-> [i \in 1..Len(order) |->
                    [group |-> order[i], error |-> failed[order[i]]]]]

\* extract_suite as it would be if it reported the first failure only.
extract_suite_FirstOnly(self, order) ==
    IF DOMAIN self.failed_to_compile # {}
    THEN Err(PanicMessage(self.failed_to_compile, <<order[1]>>))
    ELSE Ok(self.suite)

\* BenchmarkSuiteCompilation::extract_suite, the HashMap being iterated in
\* `order`: Err stands for the panic, with its message.
extract_suite(self, order) ==
    IF DOMAIN self.failed_to_compile # {}
    THEN Err(PanicMessage(self.failed_to_compile, order))
    ELSE Ok(self.suite)

\* ------------------------------------------------------------- the caller
\* The temporary directory once the value `holder` (an Option of a suite)
\* is all that is left of the result: it is deleted with its last handle.
TempDirWith(holder) ==
    IF holder # None /\ holder[1]._tmp_artifacts_dir # None THEN tmp_state
    ELSE Released(tmp_state)

\* prepare_runtime_benchmark_suite has returned Ok(..) to its caller; the
\* locals of the call are gone and its history is of no interest any more.
TakeResult ==
    /\ pc = "done"
    /\ ret # None
    /\ ret[1].ok
    /\ compilation' = Some(ret[1].val)
    /\ pc' = "returned"
    /\ ret' = None
    /\ benchmark_crates' = <<>>
    /\ temp_dir' = None
    /\ index' = 1
    /\ groups' = <<>>
    /\ failed_to_compile' = EmptyMap
    /\ outcome' = [u \in UnitNames |-> None]
    /\ nread' = 0
    /\ UNCHANGED <<dir, isolation_mode, guard, proc, result>>
    /\ UNCHANGED parse_vars
    /\ UNCHANGED env_vars
    /\ UNCHANGED file_vars
    /\ UNCHANGED <<suite, panic, call>>
    /\ UNCHANGED discovery_vars

\* The variables of the assembly and of the discovery, which the calls on
\* the result leave alone.
assembly_vars ==
    <<dir, isolation_mode, pc, benchmark_crates, temp_dir, index, groups,
      failed_to_compile, guard, proc, group, messages, result, ret, outcome,
      nread, env_vars, lock_mode, saved_permissions, target_dirs>>

\* compilation.extract_suite()
ExtractSuite ==
    /\ pc = "returned"
    /\ compilation # None
    /\ \E order \in Orders(DOMAIN compilation[1].failed_to_compile) :
          LET out == extract_suite(compilation[1], order)
          IN /\ call' = [op |-> "extract_suite", self |-> compilation[1], out |-> out]
             /\ IF out.ok
                THEN /\ suite' = Some(out.val)
                     /\ panic' = None
                ELSE /\ suite' = None
                     /\ panic' = Some(out.val)
             /\ tmp_state' = TempDirWith(suite')
    /\ compilation' = None
    /\ UNCHANGED assembly_vars
    /\ UNCHANGED discovery_vars

\* suite = suite.filter(&filter)
FilterSuite ==
    /\ suite # None
    /\ \E f \in BenchmarkFilters :
          LET out == filter(suite[1], f)
          IN /\ call' = [op |-> "filter", self |-> suite[1], filter |-> f, out |-> out]
             /\ suite' = Some(out)
             /\ tmp_state' = TempDirWith(suite')
    /\ UNCHANGED <<compilation, panic>>
    /\ UNCHANGED assembly_vars
    /\ UNCHANGED discovery_vars

\* suite.filtered_benchmark_count(&filter)
FilteredBenchmarkCount ==
    /\ suite # None
    /\ \E f \in BenchmarkFilters :
          call' = [op |-> "filtered_benchmark_count", self |-> suite[1],
                   filter |-> f, out |-> filtered_benchmark_count(suite[1], f)]
    /\ UNCHANGED <<compilation, suite, panic, tmp_state>>
    /\ UNCHANGED assembly_vars
    /\ UNCHANGED discovery_vars

\* The names a caller may ask for: those of the suite and one of no group.
Asked(self) ==
    {benchmark_names(self)[i] : i \in 1..Len(benchmark_names(self))}
        \cup {<<"z">>}

\* suite.get_group_by_benchmark(benchmark)
GetGroupByBenchmark ==
    /\ suite # None
    /\ \E benchmark \in Asked(suite[1]) :
          call' = [op |-> "get_group_by_benchmark", self |-> suite[1],
                   benchmark |-> benchmark,
                   out |-> get_group_by_benchmark(suite[1], benchmark)]
    /\ UNCHANGED <<compilation, suite, panic, tmp_state>>
    /\ UNCHANGED assembly_vars
    /\ UNCHANGED discovery_vars

\* The suite goes out of scope.
DropSuite ==
    /\ suite # None
    /\ suite' = None
    /\ call' = [op |-> "drop", self |-> suite[1]]
    /\ tmp_state' = TempDirWith(suite')
    /\ UNCHANGED <<compilation, panic>>
    /\ UNCHANGED assembly_vars
    /\ UNCHANGED discovery_vars

\* The assembly followed by what its caller does with the result.
LifetimeNext ==
    \/ Next
    \/ TakeResult
    \/ ExtractSuite
    \/ FilterSuite
    \/ DropSuite

LifetimeSpec == Init /\ [][LifetimeNext]_vars

\* --------------------------------------- the calls on a returned result
\* The lists of names the binaries of the units print.
SuiteLists ==
    {<<>>,
     << <<"a", "1">>, <<"a", "2">>, <<"b", "1">> >>,
     << <<"c", "1">> >>,
     << <<"b", "1">> >>,
     << <<"a", "2">>, <<"c", "1">> >>,
     << <<"a", "1">> >>}

\* How the pipeline of a unit ended: with a group (its binary and names) or
\* with a failure.
UnitOutcomes ==
    [built : {TRUE}, binary : Paths, names : SuiteLists]
        \cup {[built |-> FALSE, binary |-> 1, names |-> <<>>]}

\* The groups pushed in the loop, in the order of the units, for the
\* outcomes `how` of the units in `order`.
RECURSIVE PushedGroups(_, _)
PushedGroups(order, how) ==
    IF order = <<>> THEN <<>>
    ELSE LET u == Head(order)
         IN (IF how[u].built
             THEN <<[binary |-> how[u].binary, name |-> u,
                     benchmark_names |-> how[u].names]>>
             ELSE <<>>) \o PushedGroups(Tail(order), how)

\* The failure map filled in the loop for the outcomes `how` of `units`.
InsertedFailures(units, how) ==
    [k \in {runtime_group_step_name(u) : u \in {v \in units : ~how[v].built}} |->
        DebugFormat(<<[ErrorMessage("Cannot compile runtime benchmark")
                          EXCEPT !.unit = Some(k[2])],
                      [ErrorMessage("has not produced any binary")
                          EXCEPT !.unit = Some(k[2])]>>)]

\* No assembly is running: its locals are empty and nothing is recorded
\* about its builds.
NoAssembly ==
    /\ benchmark_crates = <<>>
    /\ temp_dir = None
    /\ index = 1
    /\ groups = <<>>
    /\ failed_to_compile = EmptyMap
    /\ guard = None
    /\ proc = [u \in UnitNames |-> "none"]
    /\ group = None
    /\ messages = <<>>
    /\ result = None
    /\ ret = None
    /\ outcome = [u \in UnitNames |-> None]
    /\ nread = 0
    /\ nbin = 0
    /\ diags = <<>>
    /\ listRuns = <<>>
    /\ stream_end = "open"
    /\ unread_bin = FALSE
    /\ exit_status = None
    /\ lock_mode = [u \in UnitNames |-> LockFileMode(u)]
    /\ saved_permissions = None
    /\ target_dirs = [u \in UnitNames |-> None]

\* The state in which prepare_runtime_benchmark_suite has returned Ok(..)
\* to its caller: the groups of the units that built, sorted by binary and
\* checked for duplicates, the failures of the others, and the temporary
\* directory of an isolated assembly.
SuiteInit ==
    /\ dir \in SUBSET UnitNames
    /\ isolation_mode \in {"Cached", "Isolated"}
    /\ pc = "returned"
    /\ NoAssembly
    /\ tmp_state = (IF isolation_mode = "Isolated" THEN "exists" ELSE "none")
    /\ \E how \in [dir -> UnitOutcomes] :
          \E sorted \in SortedByBinary(PushedGroups(SortedByName(dir), how)) :
             /\ check_duplicates(sorted).ok
             /\ compilation =
                   Some([suite |-> [toolchain |-> "toolchain",
                                    groups |-> sorted,
                                    _tmp_artifacts_dir |->
                                       IF isolation_mode = "Isolated"
                                       THEN Some("tmp") ELSE None],
                         failed_to_compile |-> InsertedFailures(dir, how)])
    /\ suite = None
    /\ panic = None
    /\ call = NoCall
    /\ DiscoveryIdle

SuiteNext ==
    \/ ExtractSuite
    \/ FilterSuite
    \/ FilteredBenchmarkCount
    \/ GetGroupByBenchmark
    \/ DropSuite

SuiteSpec == SuiteInit /\ [][SuiteNext]_vars

\* ======================================== get_runtime_benchmark_groups
\* Entries of the benchmark directory are named 1..MaxEntries.
MaxEntries == 3

\* What an entry of the directory can be: entry.file_type()?.is_dir(),
\* path.join("Cargo.toml").is_file() and whether its file name is valid
\* text.  A link to a unit directory is no directory but has the manifest.
EntryKinds ==
    {[is_dir |-> FALSE, manifest |-> FALSE, utf8 |-> TRUE],
     [is_dir |-> FALSE, manifest |-> TRUE, utf8 |-> TRUE],
     [is_dir |-> TRUE, manifest |-> FALSE, utf8 |-> TRUE],
     [is_dir |-> TRUE, manifest |-> TRUE, utf8 |-> TRUE],
     [is_dir |-> TRUE, manifest |-> TRUE, utf8 |-> FALSE]}

\* The directories: each name is the name of at most one entry.
Roots ==
    UNION {[names -> EntryKinds] : names \in SUBSET (1..MaxEntries)}

\* The entry named n of the directory d.
Entry(d, n) ==
    [name |-> n, is_dir |-> d[n].is_dir, manifest |-> d[n].manifest,
     utf8 |-> d[n].utf8]

DiscoveryInit ==
    /\ \E d \in Roots : root = {Entry(d, n) : n \in DOMAIN d}
    /\ restriction \in {None} \cup {Some(n) : n \in 1..MaxEntries}
    /\ unread = {}
    /\ found = <<>>
    /\ listed = None
    /\ pc = "read_dir"
    /\ dir = {}
    /\ isolation_mode = "Cached"
    /\ NoAssembly
    /\ tmp_state = "none"
    /\ CallerIdle

\* The function returns `r`.
Listed(r) ==
    /\ listed' = Some(r)
    /\ pc' = "listed"

\* std::fs::read_dir(directory).with_context(..)?
ReadDir ==
    /\ pc = "read_dir"
    /\ \/ /\ unread' = root
          /\ pc' = "entries"
          /\ listed' = listed
       \/ /\ Listed(Err(<<ErrorMessage("Failed to list benchmark dir"),
                          ErrorMessage("io error")>>))
          /\ unread' = unread
    /\ UNCHANGED <<root, restriction, found>>
    /\ UNCHANGED <<dir, isolation_mode, benchmark_crates, temp_dir, index,
                   groups, failed_to_compile, guard, proc, group, messages,
                   result, ret, outcome, nread, env_vars>>
    /\ UNCHANGED file_vars
    /\ UNCHANGED caller_vars

\* let entry = entry?;  and  entry.file_type()?  -- an I/O error on an entry.
EntryError ==
    /\ pc = "entries"
    /\ unread # {}
    /\ Listed(Err(<<ErrorMessage("io error")>>))
    /\ UNCHANGED <<root, restriction, unread, found>>
    /\ UNCHANGED <<dir, isolation_mode, benchmark_crates, temp_dir, index,
                   groups, failed_to_compile, guard, proc, group, messages,
                   result, ret, outcome, nread, env_vars>>
    /\ UNCHANGED file_vars
    /\ UNCHANGED caller_vars

\* IsUnit as it would be without the test for the manifest.
IsUnit_AnyDirectory(entry) == entry.is_dir

\* The entry is a directory and path.join("Cargo.toml") is a file.
IsUnit(entry) == entry.is_dir /\ entry.manifest

\* The body of the loop for one entry; read_dir yields the entries in any
\* order.
VisitEntry ==
    /\ pc = "entries"
    /\ \E entry \in unread :
          /\ unread' = unread \ {entry}
          /\ IF ~IsUnit(entry)
             THEN UNCHANGED <<found, listed, pc>>
             ELSE IF ~entry.utf8
                  THEN /\ Listed(Err(<<[ErrorMessage("Cannot get filename of")
                                           EXCEPT !.path = Some(entry.name)]>>))
                       /\ found' = found
                  ELSE IF restriction # None /\ restriction[1] # entry.name
                       THEN UNCHANGED <<found, listed, pc>>
                       ELSE /\ found' = Append(found, [name |-> entry.name,
                                                        path |-> entry.name])
                            /\ UNCHANGED <<listed, pc>>
    /\ UNCHANGED <<root, restriction>>
    /\ UNCHANGED <<dir, isolation_mode, benchmark_crates, temp_dir, index,
                   groups, failed_to_compile, guard, proc, group, messages,
                   result, ret, outcome, nread, env_vars>>
    /\ UNCHANGED file_vars
    /\ UNCHANGED caller_vars

\* groups.sort_unstable_by(|a, b| a.name.cmp(&b.name)): every ordering of
\* the same units by non-decreasing name.
SortedByNameOf(gs) ==
    LET perms == {perm \in [1..Len(gs) -> 1..Len(gs)] :
                     \A i, j \in 1..Len(gs) : i # j => perm[i] # perm[j]}
        sorted == {perm \in perms :
                      \A i \in 1..(Len(gs) - 1) :
                         gs[perm[i]].name <= gs[perm[i + 1]].name}
    IN {[i \in 1..Len(gs) |-> gs[perm[i]]] : perm \in sorted}

\* The loop is over: sort and return.
SortAndReturn ==
    /\ pc = "entries"
    /\ unread = {}
    /\ \E sorted \in SortedByNameOf(found) :
          /\ found' = sorted
          /\ Listed(Ok(sorted))
    /\ UNCHANGED <<root, restriction, unread>>
    /\ UNCHANGED <<dir, isolation_mode, benchmark_crates, temp_dir, index,
                   groups, failed_to_compile, guard, proc, group, messages,
                   result, ret, outcome, nread, env_vars>>
    /\ UNCHANGED file_vars
    /\ UNCHANGED caller_vars

DiscoveryNext ==
    \/ ReadDir
    \/ EntryError
    \/ VisitEntry
    \/ SortAndReturn

DiscoverySpec == DiscoveryInit /\ [][DiscoveryNext]_vars

\* =============================================================== claims
Key(u) == runtime_group_step_name(u)

\* The positions in `groups` of the groups named u.
GroupsNamed(u) == {i \in 1..Len(groups) : groups[i].name = u}

\* The unit at position k of benchmark_crates has been through the match
\* on its result.
Recorded(k) == k < index

\* The messages with which the call ends before or after the loop, none of
\* them a failure of a unit's build pipeline.
NonPipelineErrors ==
    {"Failed to list benchmark dir", "Cannot create temporary directory",
     "EnsureImmutableFile::new failed", "Duplicated benchmark name"}

\* C1: a unit whose build pipeline fails (cargo not spawned, stream error,
\* unsuccessful exit, no or several binaries, enumeration failure, wait
\* failure) is recorded in failed_to_compile under its own key with its
\* formatted error and gets no group; no such failure ends the call, so the
\* loop goes on to the later units; and every other recorded unit keeps
\* exactly the outcome of its own pipeline: its one group and no failure
\* entry, or its failure entry and no group.
C1_FailureIsolated ==
    /\ \A k \in 1..Len(benchmark_crates) :
          LET u == benchmark_crates[k]
          IN Recorded(k) =>
                /\ outcome[u] # None
                /\ IF outcome[u][1].ok
                   THEN /\ Cardinality(GroupsNamed(u)) = 1
                        /\ \A i \in GroupsNamed(u) : groups[i] = outcome[u][1].val
                        /\ Key(u) \notin DOMAIN failed_to_compile
                   ELSE /\ GroupsNamed(u) = {}
                        /\ Key(u) \in DOMAIN failed_to_compile
                        /\ failed_to_compile[Key(u)] = DebugFormat(outcome[u][1].val)
    /\ ret # None =>
          IF ret[1].ok
          THEN /\ index = Len(benchmark_crates) + 1
               /\ ret[1].val.failed_to_compile = failed_to_compile
               /\ ret[1].val.suite.groups = groups
          ELSE Head(ret[1].val).msg \in NonPipelineErrors

\* A first unit failed, the second one was still built and the call
\* returned the second unit's group and the first unit's failure.
C1_Witness ==
    /\ pc = "done"
    /\ ret # None
    /\ ret[1].ok
    /\ Len(benchmark_crates) = 2
    /\ ~outcome[1][1].ok
    /\ outcome[2][1].ok
    /\ Len(ret[1].val.suite.groups) = 1
    /\ DOMAIN ret[1].val.failed_to_compile = {Key(1)}

\* The call ended on the failure to acquire the lock-file guard of unit u.
GuardFailed(u) ==
    /\ ret # None
    /\ ~ret[1].ok
    /\ ret[1].val = GuardError(u)

\* C2: in isolated mode a failure to acquire the lock-file guard of a unit
\* is recorded in the failure map and the batch goes on: the call never
\* ends on that failure instead of returning a BenchmarkSuiteCompilation.
C2_GuardFailureRecorded ==
    \A u \in UnitNames :
       GuardFailed(u) => /\ Key(u) \in DOMAIN failed_to_compile
                         /\ pc # "done"

\* The benchmarks that both g and h report.
SharedBenchmarks(g, h) ==
    {g.benchmark_names[i] : i \in 1..Len(g.benchmark_names)}
        \cap {h.benchmark_names[i] : i \in 1..Len(h.benchmark_names)}

\* Two groups with different names report a common benchmark.
Conflict ==
    \E i, j \in 1..Len(groups) :
       /\ groups[i].name # groups[j].name
       /\ SharedBenchmarks(groups[i], groups[j]) # {}

\* The loop ran over every unit and the call returned from its last lines.
Assembled ==
    /\ pc = "done"
    /\ ret # None
    /\ benchmark_crates # <<>>
    /\ index = Len(benchmark_crates) + 1

\* C3: when two groups with different names report the same benchmark, the
\* call returns the duplicate error naming that benchmark and two different
\* groups that both report it; and a returned compilation has no benchmark
\* in two groups with different names.
C3_DuplicateAcrossGroups ==
    Assembled =>
       /\ Conflict =>
             /\ ~ret[1].ok
             /\ LET error == Head(ret[1].val)
                IN /\ error.msg = "Duplicated benchmark name"
                   /\ error.previous_group # error.group
                   /\ \E i, j \in 1..Len(groups) :
                         /\ groups[i].name = error.previous_group
                         /\ groups[j].name = error.group
                         /\ error.benchmark \in SharedBenchmarks(groups[i], groups[j])
       /\ ret[1].ok => ~Conflict

\* C4: in isolated mode the lock-file guard of a unit is held as long as
\* the cargo process of that unit runs.
C4_GuardHeldWhileBuilding ==
    isolation_mode = "Isolated" =>
       \A u \in UnitNames : proc[u] = "running" => guard = Some(u)

\* C5: at most one cargo build process runs at any time.
C5_OneBuildAtATime ==
    Cardinality({u \in UnitNames : proc[u] = "running"}) <= 1

\* The error parse_benchmark_group returns, under the context the loop adds.
CompileError(u, cause) ==
    <<[ErrorMessage("Cannot compile runtime benchmark") EXCEPT !.unit = Some(u)],
      cause>>

MultipleBinaries(u) ==
    [ErrorMessage("has produced multiple binaries") EXCEPT !.unit = Some(u)]

NoBinary(u) ==
    [ErrorMessage("has not produced any binary") EXCEPT !.unit = Some(u)]

\* The message of the error with which the pipeline of unit u ended, under
\* the context the loop adds; "" when it has not ended or ended with a group.
FailureOf(u) ==
    IF outcome[u] = None \/ outcome[u][1].ok THEN ""
    ELSE outcome[u][1].val[2].msg

\* The build of the current unit was started and its result is at the match.
AtMatch == pc = "record" /\ proc[benchmark_crate] # "none"

\* Binary artifact messages in the stream of the current unit, read or not.
BinariesInStream == nbin + (IF unread_bin THEN 1 ELSE 0)

C7_NoBinaryInStream ==
    (AtMatch /\ exit_status = Some(Some(0)) /\ BinariesInStream = 0) =>
       result[1] = Err(CompileError(benchmark_crate, NoBinary(benchmark_crate)))

\* C7 amended: a unit whose stream is read to its end without a binary
\* artifact message and for which wait() reports a successful exit fails
\* with the "no binary" error; that error is given only then, so never
\* together with an unsuccessful exit; and it is recorded under the key of
\* that unit only.
C7_NoBinaryAfterSuccess ==
    /\ AtMatch =>
          ((stream_end = "eof" /\ exit_status = Some(Some(0)) /\ nbin = 0)
             <=> result[1] = Err(CompileError(benchmark_crate, NoBinary(benchmark_crate))))
    /\ \A v \in UnitNames :
          (/\ Key(v) \in DOMAIN failed_to_compile
           /\ failed_to_compile[Key(v)][3].msg = "has not produced any binary")
             => /\ failed_to_compile[Key(v)][3].unit = Some(v)
                /\ FailureOf(v) = "has not produced any binary"

\* The second of two units ended successfully without a binary; its
\* failure is the only entry of the returned failure map.
C7_Witness ==
    /\ pc = "done"
    /\ ret # None
    /\ ret[1].ok
    /\ Len(benchmark_crates) = 2
    /\ DOMAIN ret[1].val.failed_to_compile = {Key(2)}
    /\ ret[1].val.failed_to_compile[Key(2)] = DebugFormat(CompileError(2, NoBinary(2)))
    /\ Len(ret[1].val.suite.groups) = 1

\* The texts of the diagnostics, concatenated in arrival order.
RECURSIVE Concatenated(_)
Concatenated(ds) ==
    IF ds = <<>> THEN <<>>
    ELSE DiagnosticText(Head(ds)) \o Concatenated(Tail(ds))

\* C8: when the stream was read to its end and cargo exited unsuccessfully,
\* the result is the build-failure error with the exit code (1 when a
\* signal ended cargo and there is none) and the texts of all diagnostics
\* received, concatenated in arrival order, whether or not a binary was
\* found and enumerated before.
C8_BuildFailure ==
    (AtMatch /\ stream_end = "eof" /\ exit_status # None /\ ~success(exit_status[1])) =>
       result[1] = Err(CompileError(benchmark_crate,
          [ErrorMessage("Failed to compile runtime benchmark, exit code")
              EXCEPT !.code = Some(IF exit_status[1] # None THEN exit_status[1][1] ELSE 1),
                     !.text = Concatenated(diags)]))

\* A binary was found and enumerated, a diagnostic came after it, cargo
\* exited with code 2 and the unit has an error instead of a group.
C8_Witness ==
    /\ AtMatch
    /\ stream_end = "eof"
    /\ exit_status = Some(Some(2))
    /\ nbin = 1
    /\ group # None
    /\ Len(diags) = 1
    /\ ~result[1].ok

\* C9: when the `list` run of the unit's binary could not be started, exited
\* unsuccessfully or printed something that is no list of strings, the unit
\* fails and has no group.
C9_AbnormalListFails ==
    (AtMatch /\ listRuns # <<>>) =>
       LET run == listRuns[1].run
       IN (~run.started \/ ~success(run.status) \/ run.stdout = None)
             => ~result[1].ok

\* Some benchmark occurs twice in the list of group g.
DuplicateWithin(g) ==
    \E i, j \in 1..Len(g.benchmark_names) :
       i # j /\ g.benchmark_names[i] = g.benchmark_names[j]

\* C10: when a group reports a benchmark more than once and no benchmark is
\* reported by two groups, the duplicate validation passes and the call
\* returns a compilation holding that group.
C10_DuplicateWithinGroupPasses ==
    (/\ Assembled
     /\ \E i \in 1..Len(groups) : DuplicateWithin(groups[i])
     /\ ~Conflict)
       => /\ ret[1].ok
          /\ ret[1].val.suite.groups = groups

\* --------------------------------------------------------------- C11
\* C11: extract_suite on a compilation with an empty failure map gives its
\* suite as it is (toolchain, groups in their order, handle of the
\* temporary directory); on one with failures it gives no suite but panics,
\* and the message has, for every entry of the failure map, the key of the
\* failed group, which holds its name, with the stored error text.
C11_ExtractSuite ==
    call.op = "extract_suite" =>
       LET failed == call.self.failed_to_compile
       IN IF DOMAIN failed = {}
          THEN /\ suite = Some(call.self.suite)
               /\ panic = None
          ELSE /\ suite = None
               /\ panic # None
               /\ \A u \in UnitNames :
                     Key(u) \in DOMAIN failed =>
                        \E i \in 1..Len(panic[1].entries) :
                           /\ panic[1].entries[i].group = Key(u)
                           /\ panic[1].entries[i].error = failed[Key(u)]
               /\ DOMAIN failed \subseteq {Key(u) : u \in UnitNames}

\* extract_suite panicked on a compilation with two failures, the later
\* unit first in the message.
C11_Witness ==
    /\ call.op = "extract_suite"
    /\ DOMAIN call.self.failed_to_compile = {Key(1), Key(2)}
    /\ panic # None
    /\ panic[1].entries[1].group = Key(2)
    /\ suite = None

\* --------------------------------------------------------------- C12
\* The name is kept by the filter f: not excluded by the exclude pattern if
\* there is one, included by the include pattern if there is one.
KeptBy(f, name) ==
    /\ (f.exclude = None \/ ~Matches(f.exclude[1], name))
    /\ (f.include = None \/ Matches(f.include[1], name))

\* The positions of the groups of gs with at least one name kept by f.
KeptGroups(gs, f) ==
    {i \in 1..Len(gs) :
        \E j \in 1..Len(gs[i].benchmark_names) : KeptBy(f, gs[i].benchmark_names[j])}

\* C12: filter gives the suite whose groups are the groups of the input
\* with at least one name kept by the filter, each whole and in the order
\* of the input, with the toolchain and the handle of the temporary
\* directory of the input; without patterns these are the groups with at
\* least one name.
C12_FilterKeepsWholeGroups ==
    call.op = "filter" =>
       LET gs == call.self.groups
           kept == KeptGroups(gs, call.filter)
       IN /\ suite = Some(call.out)
          /\ Len(call.out.groups) = Cardinality(kept)
          /\ \A i \in kept :
                call.out.groups[Cardinality({k \in kept : k <= i})] = gs[i]
          /\ call.out.toolchain = call.self.toolchain
          /\ call.out._tmp_artifacts_dir = call.self._tmp_artifacts_dir
          /\ call.filter = keep_all =>
                kept = {i \in 1..Len(gs) : gs[i].benchmark_names # <<>>}

\* Of the groups {a1, a2, b1} and {c1} the include pattern "a" kept the
\* first one, with its three names.
C12_Witness ==
    /\ call.op = "filter"
    /\ call.filter = [exclude |-> None, include |-> Some(<<"a">>)]
    /\ Len(call.self.groups) = 2
    /\ Len(call.out.groups) = 1
    /\ call.out.groups[1].benchmark_names =
          << <<"a", "1">>, <<"a", "2">>, <<"b", "1">> >>
    /\ \E i \in 1..2 : call.self.groups[i].benchmark_names = << <<"c", "1">> >>

\* --------------------------------------------------------------- C13
\* The names of the groups before group g of gs.
RECURSIVE NamesBefore(_, _)
NamesBefore(gs, g) ==
    IF g = 1 THEN 0 ELSE NamesBefore(gs, g - 1) + Len(gs[g - 1].benchmark_names)

\* C13: benchmark_names yields the names group after group and, in a group,
\* in the order of its list; filtered_benchmark_count is the number of the
\* entries of benchmark_names kept by the filter.
C13_CountsNames ==
    call.op = "filtered_benchmark_count" =>
       LET gs == call.self.groups
           names == benchmark_names(call.self)
       IN /\ Len(names) = NamesBefore(gs, Len(gs) + 1)
          /\ \A g \in 1..Len(gs) :
                \A j \in 1..Len(gs[g].benchmark_names) :
                   names[NamesBefore(gs, g) + j] = gs[g].benchmark_names[j]
          /\ call.out = Cardinality({i \in 1..Len(names) : KeptBy(call.filter, names[i])})

\* For the groups {a1, a2, b1} and {c1} and the include pattern "a" the
\* count is 2, while the filtered suite has three names.
C13_Witness ==
    /\ call.op = "filtered_benchmark_count"
    /\ call.filter = [exclude |-> None, include |-> Some(<<"a">>)]
    /\ Len(call.self.groups) = 2
    /\ benchmark_names(call.self) =
          << <<"a", "1">>, <<"a", "2">>, <<"b", "1">>, <<"c", "1">> >>
    /\ call.out = 2
    /\ Len(benchmark_names(filter(call.self, call.filter))) = 3

\* --------------------------------------------------------------- C14
\* The names of the entries of the directory the function is to return.
UnitsOf(d, r) ==
    {e.name : e \in {x \in d :
                        /\ x.is_dir
                        /\ x.manifest
                        /\ (r # None => x.name = r[1])}}

\* C14: what get_runtime_benchmark_groups returns is the entries of the
\* directory that are directories with a Cargo.toml and, under a
\* restriction, have the restricting name, each once and in ascending
\* order of name; under a restriction that is one unit when a unit has the
\* name and the empty list when none has.
C14_DiscoveryExact ==
    (pc = "listed" /\ listed # None /\ listed[1].ok) =>
       LET units == listed[1].val
           wanted == UnitsOf(root, restriction)
       IN /\ {units[i].name : i \in 1..Len(units)} = wanted
          /\ Len(units) = Cardinality(wanted)
          /\ \A i \in 1..(Len(units) - 1) : units[i].name < units[i + 1].name
          /\ restriction # None =>
                Len(units) =
                   (IF \E e \in root :
                          e.is_dir /\ e.manifest /\ e.name = restriction[1]
                    THEN 1 ELSE 0)

\* A directory with two units and a file, read with the later unit first,
\* was listed as the two units in the order of their names.
C14_Witness ==
    /\ pc = "listed"
    /\ listed # None
    /\ listed[1].ok
    /\ restriction = None
    /\ Cardinality(root) = 3
    /\ \E e \in root : ~e.is_dir
    /\ Len(listed[1].val) = 2
    /\ listed[1].val[1].name < listed[1].val[2].name

\* --------------------------------------------------------------- C15
\* The Cargo.lock of unit u has the bits it had before the assembly.
LockFileAsBefore(u) == lock_mode[u] = LockFileMode(u)

\* C15: in isolated mode the lock file of every unit whose processing has
\* ended has the permission bits it had before its guard was acquired; at
\* most one lock file is held by a guard at any time, and when the loop
\* is about to acquire the guard of a unit no guard is held.
C15_LockFileRestored ==
    isolation_mode = "Isolated" =>
       /\ \A k \in 1..Len(benchmark_crates) :
             Recorded(k) => LockFileAsBefore(benchmark_crates[k])
       /\ Cardinality({u \in UnitNames : ~LockFileAsBefore(u)}) <= 1
       /\ pc \in {"guard", "finish", "done"} =>
             /\ guard = None
             /\ \A u \in UnitNames : LockFileAsBefore(u)
       /\ guard # None =>
             /\ guard = Some(benchmark_crate)
             /\ saved_permissions = Some(LockFileMode(benchmark_crate))
             /\ lock_mode[benchmark_crate] = ReadOnly(LockFileMode(benchmark_crate))

\* The first of two units failed under its guard and its lock file is
\* writable again, while the guard of the second unit is held.
C15_Witness ==
    /\ isolation_mode = "Isolated"
    /\ Len(benchmark_crates) = 2
    /\ index = 2
    /\ pc = "read"
    /\ FailureOf(1) # ""
    /\ LockFileAsBefore(1)
    /\ ~LockFileAsBefore(2)
    /\ guard = Some(2)

\* --------------------------------------------------------------- C18
\* C18: in a returned BenchmarkSuiteCompilation every discovered unit is
\* the name of exactly one group and no key of the failure map, or a key of
\* the failure map and the name of no group; groups and failure entries
\* together are as many as the discovered units, and each of them belongs
\* to a discovered unit.
C18_EveryUnitAccounted ==
    (pc = "done" /\ ret # None /\ ret[1].ok) =>
       LET gs == ret[1].val.suite.groups
           failed == ret[1].val.failed_to_compile
           discovered == {benchmark_crates[k] : k \in 1..Len(benchmark_crates)}
       IN /\ discovered = dir
          /\ \A u \in discovered :
                LET built == Cardinality({i \in 1..Len(gs) : gs[i].name = u})
                IN IF Key(u) \in DOMAIN failed THEN built = 0 ELSE built = 1
          /\ Len(gs) + Cardinality(DOMAIN failed) = Len(benchmark_crates)
          /\ \A i \in 1..Len(gs) : gs[i].name \in discovered
          /\ DOMAIN failed \subseteq {Key(u) : u \in discovered}

\* Two units were discovered; the first one built, the second one failed,
\* and the call returned one group and one failure entry.
C18_Witness ==
    /\ pc = "done"
    /\ ret # None
    /\ ret[1].ok
    /\ Len(benchmark_crates) = 2
    /\ Len(ret[1].val.suite.groups) = 1
    /\ ret[1].val.suite.groups[1].name = 1
    /\ DOMAIN ret[1].val.failed_to_compile = {Key(2)}

\* --------------------------------------------------------------- C19
\* C19: for each unit gather_benchmarks runs at most once, for the first
\* binary artifact message and before the exit status of cargo is
\* collected; a second binary artifact message causes no further run; a
\* compiler-artifact message without executable or without kind "bin"
\* causes none; and when the run fails, the interpretation of the stream
\* has ended.
C19_EnumeratedOnce ==
    /\ Len(listRuns) = (IF nbin > 0 THEN 1 ELSE 0)
    /\ \A i \in 1..Len(listRuns) :
          /\ listRuns[i].artifact.executable = Some(listRuns[i].binary)
          /\ "bin" \in listRuns[i].artifact.kind
          /\ ~listRuns[i].waited
          /\ ~gather_benchmarks(listRuns[i].run).ok =>
                /\ pc = "record"
                /\ nbin = 1
                /\ stream_end = "open"
                /\ FailureOf(benchmark_crate) = "Cannot gather benchmarks from"
    /\ pc = "read" => exit_status = None

\* A second binary artifact message was read and ended the unit with the
\* error, with the one run for the first binary.
C19_Witness ==
    /\ AtMatch
    /\ nbin = 2
    /\ Len(listRuns) = 1
    /\ gather_benchmarks(listRuns[1].run).ok
    /\ FailureOf(benchmark_crate) = "has produced multiple binaries"

\* --------------------------------------------------------------- C16
\* The groups gs are in the order of their binaries.
OrderedByBinary(gs) ==
    \A i \in 1..(Len(gs) - 1) : gs[i].binary <= gs[i + 1].binary

\* C16: the groups of the suite prepare_runtime_benchmark_suite returns,
\* and of every suite its caller gets from it by extract_suite and filter,
\* are ordered by non-decreasing binary path.
C16_GroupsOrderedByBinary ==
    /\ (ret # None /\ ret[1].ok) => OrderedByBinary(ret[1].val.suite.groups)
    /\ compilation # None => OrderedByBinary(compilation[1].suite.groups)
    /\ suite # None => OrderedByBinary(suite[1].groups)

\* The second unit, built last, has the lesser binary and is the first
\* group of the filtered suite.
C16_Witness ==
    /\ call.op = "filter"
    /\ suite # None
    /\ Len(suite[1].groups) = 2
    /\ suite[1].groups[1].name = 2
    /\ suite[1].groups[2].name = 1
    /\ suite[1].groups[1].binary < suite[1].groups[2].binary

\* --------------------------------------------------------------- C17
\* The value holds the handle of the temporary directory.
HoldsTempDir(s) == s._tmp_artifacts_dir = Some("tmp")

\* C17: a cached assembly creates no temporary directory, passes no target
\* directory and its suite holds none.  An isolated assembly has made its
\* one directory before the first build, every build gets it as target
\* directory, the returned suite and every suite the caller gets from it by
\* extract_suite and filter hold its handle and the directory exists as
\* long as they do; it is deleted when the suite is dropped and when the
\* assembly fails after having made it.
C17_TempDirLifetime ==
    /\ isolation_mode = "Cached" =>
          /\ tmp_state = "none"
          /\ temp_dir = None
          /\ \A u \in UnitNames : target_dirs[u] \in {None, Some(None)}
          /\ (ret # None /\ ret[1].ok) => ~HoldsTempDir(ret[1].val.suite)
          /\ compilation # None => ~HoldsTempDir(compilation[1].suite)
          /\ suite # None => ~HoldsTempDir(suite[1])
    /\ isolation_mode = "Isolated" =>
          /\ \A u \in UnitNames :
                /\ proc[u] # "none" => target_dirs[u] = Some(Some("tmp"))
                /\ target_dirs[u] \in {None, Some(Some("tmp"))}
          /\ pc \in {"guard", "spawn", "read", "wait", "record", "finish"} =>
                /\ temp_dir = Some("tmp")
                /\ tmp_state = "exists"
          /\ (ret # None /\ ret[1].ok) =>
                /\ HoldsTempDir(ret[1].val.suite)
                /\ tmp_state = "exists"
          /\ (ret # None /\ ~ret[1].ok) =>
                tmp_state = (IF Head(ret[1].val).msg \in
                                   {"EnsureImmutableFile::new failed",
                                    "Duplicated benchmark name"}
                             THEN "deleted" ELSE "none")
          /\ compilation # None =>
                /\ HoldsTempDir(compilation[1].suite)
                /\ tmp_state = "exists"
          /\ suite # None =>
                /\ HoldsTempDir(suite[1])
                /\ tmp_state = "exists"
          /\ (pc = "returned" /\ compilation = None /\ suite = None) =>
                tmp_state = "deleted"

\* After an isolated assembly that built a unit, the caller holds a
\* filtered suite and the directory of the build exists.
C17_Witness ==
    /\ isolation_mode = "Isolated"
    /\ call.op = "filter"
    /\ suite # None
    /\ Len(suite[1].groups) = 1
    /\ target_dirs[1] = Some(Some("tmp"))
    /\ tmp_state = "exists"

\* --------------------------------------------------------------- C20
\* The positions of the groups of the suite s that have the name.
GroupsWith(s, name) ==
    {i \in 1..Len(s.groups) :
        \E j \in 1..Len(s.groups[i].benchmark_names) :
           s.groups[i].benchmark_names[j] = name}

\* Every name of the suite s is in one group, which the lookup returns.
LookupExact(s) ==
    \A n \in 1..Len(benchmark_names(s)) :
       LET name == benchmark_names(s)[n]
       IN /\ Cardinality(GroupsWith(s, name)) = 1
          /\ \A i \in GroupsWith(s, name) :
                get_group_by_benchmark(s, name) = Some(s.groups[i])

\* C20: in the suite of a returned compilation and in every suite got from
\* it by filter, each name of benchmark_names is in exactly one group and
\* get_group_by_benchmark gives that group; for a name of no group it
\* gives None.
C20_LookupFindsTheGroup ==
    /\ compilation # None => LookupExact(compilation[1].suite)
    /\ suite # None => LookupExact(suite[1])
    /\ call.op = "get_group_by_benchmark" =>
          IF GroupsWith(call.self, call.benchmark) = {}
          THEN call.out = None
          ELSE /\ call.out # None
               /\ \E i \in GroupsWith(call.self, call.benchmark) :
                     call.out[1] = call.self.groups[i]

\* In a suite of two groups the lookup of the last name of the second
\* group gave the second group.
C20_Witness ==
    /\ call.op = "get_group_by_benchmark"
    /\ Len(call.self.groups) = 2
    /\ Len(call.self.groups[2].benchmark_names) = 2
    /\ call.benchmark = call.self.groups[2].benchmark_names[2]
    /\ call.out = Some(call.self.groups[2])

====
